---- MODULE Spec2Model ----
(***************************************************************************)
(* A model of tools/level_converter.py: the TMX level compiler.  main()    *)
(* runs parse_tmx_file, validate_level, generate_header and the write of   *)
(* the output file, in that order.  The state is the authored document,    *)
(* the data dictionary parse_tmx_file builds, the GID table, the list of   *)
(* validation errors, and the tables generate_header computes.  A third    *)
(* specification runs tools/json_to_tmx.py on a JSON level and parses the  *)
(* document it writes.                                                     *)
(***************************************************************************)
EXTENDS Integers, Sequences, FiniteSets, TLC

VARIABLES
    pc,               \* position in main(): the stage about to run
    doc,              \* the authored TMX document (never changes)
    argc,             \* len(sys.argv) of the invocation
    input_file,       \* the input path: "missing", "malformed" (not XML) or "tmx"
    json_level,       \* the JSON level json_to_tmx reads (never changes)
    idx,              \* loop index of the tileset loop of parse_tmx_file
    data,             \* the dictionary parse_tmx_file returns
    gid_to_game_id,   \* TMX GID -> game tile ID, a function on the keys set
    errors,           \* validate_level's list of messages
    warned,           \* validate_level printed the VRAM warning
    raised,           \* the error main() reported before exiting ("" when none)
    unique_tiles,     \* generate_header: sorted(set(all_tiles))
    tile_palette_banks,
    remapped_layers,  \* generate_header: per layer, the flat list of VRAM indices
    collision_bitmap, \* generate_header: 64 words
    output_file,      \* "absent" (untouched), "partial" or "written"
    exit_code         \* -1 while main runs

vars == <<pc, doc, argc, input_file, json_level, idx, data, gid_to_game_id, errors,
          warned, raised, unique_tiles,
          tile_palette_banks, remapped_layers, collision_bitmap, output_file, exit_code>>

(***************************************************************************)
(* Program constants.                                                      *)
(***************************************************************************)
BITMAP_WORDS == 64
BITMAP_BITS == 2048
MAX_DIM == 256
MAX_OBJECTS == 256
MAX_TILE_ID == 65535
VRAM_WARN == 1000
DEFAULT_TILE_SIZE == 8
SOLID_END == 56
GRASSY_FIRST == 1
PLANTS_FIRST == 56
DECALS_FIRST == 216

\* DEFAULT_COLLISION_TILES = list(range(1, 56))
DEFAULT_COLLISION_TILES == [i \in 1..(SOLID_END - 1) |-> i]

\* EXPECTED_RANGES of parse_tmx_file, as the set of registered names and the
\* first id of each.
EXPECTED_NAMES == {"grassy_stone", "plants", "decals"}
EXPECTED_RANGES(name) ==
    CASE name = "grassy_stone" -> GRASSY_FIRST
      [] name = "plants" -> PLANTS_FIRST
      [] name = "decals" -> DECALS_FIRST

(***************************************************************************)
(* Bounds of the documents the model draws.                                *)
(***************************************************************************)
MaxRows == 2
MaxCols == 2
MaxGid == 4
BigRows == 9

\* The empty token of a CSV row: what a trailing or doubled comma leaves.
Blank == -1

SeqOf(s) == {s[i] : i \in DOMAIN s}

(***************************************************************************)
(* Authored documents.  A tileset element carries its firstgid, whether it *)
(* names an external source, and the name and tilecount its TSX declares.  *)
(* A layer carries its data encoding and its CSV text as rows of tokens.   *)
(***************************************************************************)
Tileset(name, firstgid, count) ==
    [name |-> name, firstgid |-> firstgid, source |-> TRUE, tileCount |-> count]

InlineTileset(firstgid) ==
    [name |-> "inline", firstgid |-> firstgid, source |-> FALSE, tileCount |-> 2]

TilesetConfigs ==
    { <<>>,
      <<Tileset("grassy_stone", 1, 2)>>,
      <<Tileset("grassy_stone", 1, 1), Tileset("decals", 2, 1), Tileset("plants", 3, 1)>>,
      <<Tileset("grassy_stone", 1, 3), Tileset("plants", 3, 2)>>,
      <<Tileset("plants", 3, 2), Tileset("grassy_stone", 1, 3)>>,
      <<Tileset("custom", 1, 2)>>,
      <<Tileset("plants", 0, 2)>>,
      <<InlineTileset(1), Tileset("decals", 3, 1)>> }

\* Row lengths of a layer's text: every rectangle, and the rectangles whose
\* last row is one cell short.
Shapes ==
    { [r \in 1..rows |-> cols] : rows \in 1..MaxRows, cols \in 1..MaxCols }
    \cup { [r \in 1..rows |-> IF r = rows THEN cols - 1 ELSE cols] :
             rows \in 2..MaxRows, cols \in 2..MaxCols }

\* The GIDs of a layer repeat a pattern in row-major order.
Patterns ==
    { <<a>> : a \in 0..MaxGid } \cup { <<a, b>> : a \in 0..MaxGid, b \in 1..MaxGid }

\* Offset of row r in the row-major order.
RECURSIVE RowStart(_, _)
RowStart(shape, r) == IF r = 1 THEN 0 ELSE RowStart(shape, r - 1) + shape[r - 1]

\* CSV text the way Tiled writes it: every row but the last ends in a comma.
MkRows(shape, pat) ==
    [r \in 1..Len(shape) |->
        LET start == RowStart(shape, r)
            cells == [c \in 1..shape[r] |-> pat[((start + c - 1) % Len(pat)) + 1]]
        IN IF r < Len(shape) THEN Append(cells, Blank) ELSE cells]

\* A layer element: the encoding of its data, its custom properties as
\* (name, value) pairs, and its text.
Layer(encoding, props, rows) == [encoding |-> encoding, props |-> props, rows |-> rows]

CsvLayer(shape, pat) == Layer("csv", <<>>, MkRows(shape, pat))

Base64Layer == Layer("base64", <<>>, <<>>)

\* An object element: its type and name attributes and its position, which
\* Tiled writes as a decimal number; the model counts it in half pixels.
Object(type, name, x2, y2) == [type |-> type, name |-> name, x2 |-> x2, y2 |-> y2]

MkDoc(width, height, tilesets, layers, objects) ==
    [width |-> width, height |-> height,
     tilewidth |-> DEFAULT_TILE_SIZE, tileheight |-> DEFAULT_TILE_SIZE,
     tilesets |-> tilesets, layers |-> layers, objects |-> objects]

Widths == (1..MaxCols) \cup {MAX_DIM + 1}
Heights == 0..MaxRows

\* One CSV layer.
DocsOneLayer ==
    { MkDoc(w, h, ts, <<CsvLayer(sh, p)>>, <<>>) :
        w \in Widths, h \in Heights, ts \in TilesetConfigs, sh \in Shapes, p \in Patterns }

\* Two CSV layers of the same shape.
DocsTwoLayers ==
    { MkDoc(sh[1], Len(sh), ts, <<CsvLayer(sh, p), CsvLayer(sh, <<q>>)>>, <<>>) :
        ts \in TilesetConfigs, sh \in Shapes, p \in Patterns, q \in 0..MaxGid }

\* No layer, or a layer in an encoding other than csv.
DocsOther ==
    { MkDoc(w, h, ts, ls, <<>>) :
        w \in Widths, h \in Heights, ts \in TilesetConfigs,
        ls \in { <<>>, <<Base64Layer>>, <<CsvLayer(<<1>>, <<1>>), Base64Layer>> } }

\* Levels that use many tiles: BigRows rows of MAX_DIM cells whose GIDs run
\* through n values starting at first, over one tileset that covers them.
BigCounts == {VRAM_WARN, VRAM_WARN + 1, BITMAP_BITS, BITMAP_BITS + 1}
BigTileCount == BITMAP_BITS + 2
DocsBig ==
    { MkDoc(MAX_DIM, BigRows, <<Tileset("decals", 1, BigTileCount)>>,
            <<Layer("csv", <<>>,
                    [r \in 1..BigRows |->
                       LET cells == [c \in 1..MAX_DIM |->
                                       first + (((r - 1) * MAX_DIM + c - 1) % n)]
                       IN IF r < BigRows THEN Append(cells, Blank) ELSE cells])>>,
            <<>>) :
        n \in BigCounts, first \in {0, 1} }

\* Levels with one object that names the player spawn, around the edges of
\* the level's pixel rectangle.
SpawnCoords ==
    {-2, -1, 0, 2 * DEFAULT_TILE_SIZE - 1, 2 * DEFAULT_TILE_SIZE,
     2 * MaxCols * DEFAULT_TILE_SIZE - 1, 2 * MaxCols * DEFAULT_TILE_SIZE}
DocsSpawn ==
    { MkDoc(w, h, <<Tileset("grassy_stone", 1, 2)>>, <<CsvLayer([r \in 1..h |-> w], <<1>>)>>,
            <<Object(t, "", x2, y2)>>) :
        w \in 1..MaxCols, h \in 1..MaxRows, t \in {"PlayerSpawn", "playerspawn"},
        x2 \in SpawnCoords, y2 \in SpawnCoords }

\* Levels with up to MaxObjects objects, each of one of the kinds below; the
\* object at position i of the group stands at (i - 0.5, i) pixels.
MaxObjects == 3
ObjectKinds ==
    { <<"PlayerSpawn", "">>, <<"", "playerspawn">>, <<"Enemy", "PLAYERSPAWN">>,
      <<"Enemy", "">>, <<"", "coin">>, <<"", "">> }
DocsObjects ==
    { MkDoc(1, 1, <<Tileset("grassy_stone", 1, 2)>>, <<CsvLayer(<<1>>, <<1>>)>>,
            [i \in 1..n |-> Object(kinds[i][1], kinds[i][2], 2 * i - 1, 2 * i)]) :
        kinds \in [1..MaxObjects -> ObjectKinds], n \in 0..MaxObjects }

\* Levels over an unregistered tileset whose GIDs lie around the ends of the
\* range of tile IDs: the last ID a cell may hold and the next one, and IDs
\* below zero.
EdgeTilesets == {<<Tileset("custom", MAX_TILE_ID, 2)>>, <<Tileset("custom", -3, 2)>>}
DocsEdgeIds ==
    { MkDoc(sh[1], Len(sh), ts, <<CsvLayer(sh, <<ts[1].firstgid + a, ts[1].firstgid + b>>)>>,
            <<>>) :
        ts \in EdgeTilesets, sh \in Shapes, a \in 0..1, b \in 0..1 }

\* Levels whose tilesets declare disjoint GID ranges that the registry of
\* first ids moves onto one another: an unregistered tileset declared inside
\* the range the registry gives to plants, and a plants tileset long enough
\* to reach the first id of decals.
PLANTS_COUNT == DECALS_FIRST - PLANTS_FIRST
OverlapConfigs ==
    { <<Tileset("custom", PLANTS_FIRST, 2), Tileset("plants", PLANTS_FIRST + 2, 2)>>,
      <<Tileset("plants", PLANTS_FIRST + 2, 2), Tileset("custom", PLANTS_FIRST, 2)>>,
      <<Tileset("plants", 1, 2), Tileset("custom", PLANTS_FIRST + 1, 1)>>,
      <<Tileset("plants", 1, PLANTS_COUNT + 1), Tileset("decals", PLANTS_COUNT + 2, 1)>> }
EndGids(ts) ==
    UNION { {ts[k].firstgid, ts[k].firstgid + ts[k].tileCount - 1} : k \in 1..Len(ts) }
DocsOverlap ==
    UNION { { MkDoc(MaxCols, 1, ts, <<CsvLayer(<<MaxCols>>, <<a, b>>)>>, <<>>) :
                a \in EndGids(ts) \cup {0}, b \in EndGids(ts) } :
            ts \in OverlapConfigs }

\* A layer element without a data element.
EmptyLayer == Layer("none", <<>>, <<>>)

Property(name, value) == [name |-> name, value |-> value]

\* Levels of one cell with up to MaxLayers layer elements: with no custom
\* property, with one of bgLayer and priority, with both, with a property
\* given twice or under another name, or without data.
MaxLayers == 3
LayerKinds ==
    { Layer("csv", props, MkRows(<<1>>, <<1>>)) :
        props \in { <<>>,
                    <<Property("bgLayer", 0)>>,
                    <<Property("priority", 3)>>,
                    <<Property("priority", 2), Property("bgLayer", 3)>>,
                    <<Property("bgLayer", 0), Property("speed", 5), Property("bgLayer", 3)>> } }
    \cup {EmptyLayer}
DocsLayers ==
    { MkDoc(1, 1, <<Tileset("grassy_stone", 1, 2)>>, [i \in 1..n |-> kinds[i]], <<>>) :
        kinds \in [1..MaxLayers -> LayerKinds], n \in 0..MaxLayers }

Docs ==
    DocsOneLayer \cup DocsTwoLayers \cup DocsOther \cup DocsBig \cup DocsSpawn
    \cup DocsObjects \cup DocsEdgeIds \cup DocsOverlap \cup DocsLayers

(***************************************************************************)
(* Helpers that stand for Python built-ins.                                *)
(***************************************************************************)
\* dict.get(key, default)
Get(d, key, default) == IF key \in DOMAIN d THEN d[key] ELSE default

\* int(float(text)) for a position in half pixels: truncation toward zero.
IntOfFloat(v2) == IF v2 >= 0 THEN v2 \div 2 ELSE -((-v2) \div 2)

\* str.lower() on the type and name strings the documents use.
Lower(s) ==
    CASE s = "PlayerSpawn" -> "playerspawn"
      [] s = "PLAYERSPAWN" -> "playerspawn"
      [] s = "Enemy" -> "enemy"
      [] OTHER -> s

\* list.sort(key=...) is stable: insertion after the last element whose key
\* is not greater.
RECURSIVE InsertByFirstId(_, _)
InsertByFirstId(sorted, t) ==
    IF sorted = <<>> THEN <<t>>
    ELSE IF sorted[Len(sorted)].firstId <= t.firstId THEN Append(sorted, t)
    ELSE Append(InsertByFirstId(SubSeq(sorted, 1, Len(sorted) - 1), t), sorted[Len(sorted)])

RECURSIVE SortByFirstId(_)
SortByFirstId(ts) ==
    IF ts = <<>> THEN <<>>
    ELSE InsertByFirstId(SortByFirstId(SubSeq(ts, 1, Len(ts) - 1)), ts[Len(ts)])

(***************************************************************************)
(* Initial state: main() starts, either on one of the documents or with    *)
(* an invocation that gives it no document to parse.                       *)
(***************************************************************************)
NoData ==
    [name |-> "", width |-> 0, height |-> 0, tileWidth |-> 0, tileHeight |-> 0,
     layers |-> <<>>, objects |-> <<>>, playerSpawn |-> [x |-> 0, y |-> 0],
     tilesets |-> <<>>, collisionTiles |-> <<>>]

NoDoc == MkDoc(0, 0, <<>>, <<>>, <<>>)

\* No JSON level: level_converter.py reads none.
NoJson == [width |-> 0, height |-> 0, tiles |-> <<>>]

\* len(sys.argv) is 3 for `level_converter.py input.tmx output.h`.
ARGC == 3
BadInvocations ==
    { <<n, f>> : n \in {ARGC - 1, ARGC + 1}, f \in {"missing", "malformed", "tmx"} }
    \cup { <<ARGC, "missing">>, <<ARGC, "malformed">> }

Init ==
    /\ \/ /\ doc \in Docs
          /\ argc = ARGC
          /\ input_file = "tmx"
       \/ /\ doc = NoDoc
          /\ \E inv \in BadInvocations : argc = inv[1] /\ input_file = inv[2]
    /\ pc = "main"
    /\ json_level = NoJson
    /\ idx = 0
    /\ data = NoData
    /\ gid_to_game_id = <<>>
    /\ errors = <<>>
    /\ warned = FALSE
    /\ raised = ""
    /\ unique_tiles = <<>>
    /\ tile_palette_banks = <<>>
    /\ remapped_layers = <<>>
    /\ collision_bitmap = <<>>
    /\ output_file = "absent"
    /\ exit_code = -1

\* The exception handlers of main(): the message is printed and the process
\* exits with code 1 (lines 560-570).
Fail(exc) ==
    /\ raised' = exc
    /\ exit_code' = 1
    /\ pc' = "done"

\* Main that opens the output file before it parses the input.
Main_OpensOutputFirst ==
    /\ pc = "main"
    /\ IF argc # ARGC THEN Fail("usage") /\ UNCHANGED output_file
       ELSE IF input_file = "missing"
       THEN Fail("input file not found") /\ UNCHANGED output_file
       ELSE /\ pc' = "parse_map"
            /\ output_file' = "partial"
            /\ UNCHANGED <<raised, exit_code>>
    /\ UNCHANGED <<doc, argc, input_file, json_level, idx, data,
                   gid_to_game_id, errors, warned, unique_tiles,
                   tile_palette_banks, remapped_layers, collision_bitmap>>

\* The checks of main() before the try block (lines 528-537): sys.exit(1)
\* on a wrong argument count or a missing input file.
Main ==
    /\ pc = "main"
    /\ IF argc # ARGC THEN Fail("usage")
       ELSE IF input_file = "missing" THEN Fail("input file not found")
       ELSE /\ pc' = "parse_map"
            /\ UNCHANGED <<raised, exit_code>>
    /\ UNCHANGED <<doc, argc, input_file, json_level, idx, data,
                   gid_to_game_id, errors, warned, unique_tiles,
                   tile_palette_banks, remapped_layers, collision_bitmap,
                   output_file>>

(***************************************************************************)
(* parse_tmx_file                                                          *)
(***************************************************************************)
\* ET.parse raises ParseError on a file that is not XML (line 43).
ParseXmlFails ==
    /\ pc = "parse_map"
    /\ input_file = "malformed"
    /\ Fail("ParseError")
    /\ UNCHANGED <<doc, argc, input_file, json_level, idx, data,
                   gid_to_game_id, errors, warned, unique_tiles,
                   tile_palette_banks, remapped_layers, collision_bitmap,
                   output_file>>

\* The map attributes and the initial dictionary (lines 43-74).
ParseMap ==
    /\ pc = "parse_map"
    /\ input_file = "tmx"
    /\ data' = [name |-> "Untitled Level",
                width |-> doc.width, height |-> doc.height,
                tileWidth |-> doc.tilewidth, tileHeight |-> doc.tileheight,
                layers |-> <<>>, objects |-> <<>>,
                playerSpawn |-> [x |-> 0, y |-> 0],
                tilesets |-> <<>>,
                collisionTiles |-> DEFAULT_COLLISION_TILES]
    /\ gid_to_game_id' = (0 :> 0)
    /\ idx' = 1
    /\ pc' = "parse_tilesets"
    /\ UNCHANGED <<doc, argc, input_file, json_level, errors, warned, raised,
                   unique_tiles, tile_palette_banks, remapped_layers,
                   collision_bitmap, output_file, exit_code>>

\* expected_first_id = EXPECTED_RANGES.get(tileset_name, firstgid)
ExpectedFirstId(ts) ==
    IF ts.name \in EXPECTED_NAMES THEN EXPECTED_RANGES(ts.name) ELSE ts.firstgid

\* AssignRange that keeps the entry of a GID that already has one.
AssignRange_FirstWins(d, ts) ==
    LET first == ts.firstgid
        keys == first..(first + ts.tileCount - 1)
        expected == ExpectedFirstId(ts)
    IN [g \in DOMAIN d \cup keys |->
          IF g \in DOMAIN d THEN d[g] ELSE expected + (g - first)]

\* The dictionary after the assignments gid_to_game_id[firstgid + i] =
\* expected_first_id + i for i in range(tile_count): later assignments
\* replace earlier ones.
AssignRange(d, ts) ==
    LET first == ts.firstgid
        keys == first..(first + ts.tileCount - 1)
        expected == ExpectedFirstId(ts)
    IN [g \in DOMAIN d \cup keys |->
          IF g \in keys THEN expected + (g - first) ELSE d[g]]

\* One iteration of the tileset loop (lines 76-105).
ParseTileset ==
    /\ pc = "parse_tilesets"
    /\ idx <= Len(doc.tilesets)
    /\ LET ts == doc.tilesets[idx] IN
         IF ts.source
         THEN /\ gid_to_game_id' = AssignRange(gid_to_game_id, ts)
              /\ data' = [data EXCEPT !.tilesets =
                            Append(@, [name |-> ts.name,
                                       firstId |-> ExpectedFirstId(ts),
                                       tileCount |-> ts.tileCount])]
         ELSE UNCHANGED <<gid_to_game_id, data>>
    /\ idx' = idx + 1
    /\ UNCHANGED <<pc, doc, argc, input_file, json_level, errors, warned,
                   raised, unique_tiles, tile_palette_banks, remapped_layers,
                   collision_bitmap, output_file, exit_code>>

\* DefaultPriority that gives every layer after the first the priority of
\* the second.
DefaultPriority_LaterLikeSecond(layer_index) == IF layer_index = 0 THEN 1 ELSE 0

\* Default render metadata by layer position (lines 121-130).
DefaultBgLayer(layer_index) == IF layer_index = 1 THEN 1 ELSE 2
DefaultPriority(layer_index) == IF layer_index = 1 THEN 0 ELSE 1

\* The last property named name wins over the default (lines 133-141).
RECURSIVE PropOr(_, _, _)
PropOr(props, name, default) ==
    IF props = <<>> THEN default
    ELSE IF props[Len(props)].name = name THEN props[Len(props)].value
    ELSE PropOr(SubSeq(props, 1, Len(props) - 1), name, default)

\* One row of the CSV text: the empty tokens are dropped and every GID is
\* remapped, an unknown GID to 0 (lines 150-153).
ParseRow(row, table) ==
    LET tmx_gids == SelectSeq(row, LAMBDA t : t # Blank)
    IN [i \in 1..Len(tmx_gids) |-> Get(table, tmx_gids[i], 0)]

\* Only non-empty rows are added (lines 148-154).
ParseRows(rows, table) ==
    LET parsed == [r \in 1..Len(rows) |-> ParseRow(rows[r], table)]
    IN SelectSeq(parsed, LAMBDA row : row # <<>>)

ParseLayer(layer, layer_index, table) ==
    [name |-> layer_index,
     bgLayer |-> PropOr(layer.props, "bgLayer", DefaultBgLayer(layer_index)),
     priority |-> PropOr(layer.props, "priority", DefaultPriority(layer_index)),
     tiles |-> ParseRows(layer.rows, table)]

\* The layer elements that have a data element (line 116): the others are
\* passed over and do not count in layer_index.
LayersWithData(layers) == SelectSeq(layers, LAMBDA layer : layer.encoding # "none")

\* The tileset sort and the layer loop (lines 107-165).  The first layer in
\* another encoding than csv raises ValueError.
ParseLayers ==
    /\ pc = "parse_tilesets"
    /\ idx > Len(doc.tilesets)
    /\ IF \E l \in 1..Len(doc.layers) : doc.layers[l].encoding \notin {"csv", "none"}
       THEN /\ Fail("ValueError: unsupported encoding")
            /\ UNCHANGED data
       ELSE /\ data' = [data EXCEPT
                          !.tilesets = SortByFirstId(@),
                          !.layers = [l \in 1..Len(LayersWithData(doc.layers)) |->
                                        ParseLayer(LayersWithData(doc.layers)[l], l - 1,
                                                   gid_to_game_id)]]
            /\ pc' = "parse_objects"
            /\ UNCHANGED <<raised, exit_code>>
    /\ UNCHANGED <<doc, argc, input_file, json_level, idx, gid_to_game_id,
                   errors, warned, unique_tiles, tile_palette_banks,
                   remapped_layers, collision_bitmap, output_file>>

IsSpawn(obj) == Lower(obj.type) = "playerspawn" \/ Lower(obj.name) = "playerspawn"

\* obj_type or obj_name or 'object'
ObjectType(obj) ==
    IF obj.type # "" THEN obj.type ELSE IF obj.name # "" THEN obj.name ELSE "object"

Position(obj) == [x |-> IntOfFloat(obj.x2), y |-> IntOfFloat(obj.y2)]

\* The object loop (lines 167-201) over the first n objects: the spawn
\* point and the object list it leaves.
\* SpawnAfter that keeps the first spawn object it meets.
RECURSIVE SpawnAfter_FirstWins(_, _)
SpawnAfter_FirstWins(objs, n) ==
    IF n = 0 THEN [x |-> 0, y |-> 0]
    ELSE LET before == SpawnAfter_FirstWins(objs, n - 1)
         IN IF IsSpawn(objs[n]) /\ ~(\E i \in 1..(n - 1) : IsSpawn(objs[i]))
            THEN Position(objs[n]) ELSE before

RECURSIVE SpawnAfter(_, _)
SpawnAfter(objs, n) ==
    IF n = 0 THEN [x |-> 0, y |-> 0]
    ELSE IF IsSpawn(objs[n]) THEN Position(objs[n])
    ELSE SpawnAfter(objs, n - 1)

RECURSIVE ObjectsAfter(_, _)
ObjectsAfter(objs, n) ==
    IF n = 0 THEN <<>>
    ELSE IF IsSpawn(objs[n]) THEN ObjectsAfter(objs, n - 1)
    ELSE Append(ObjectsAfter(objs, n - 1),
                [type |-> ObjectType(objs[n]),
                 x |-> Position(objs[n]).x, y |-> Position(objs[n]).y])

ParseObjects ==
    /\ pc = "parse_objects"
    /\ data' = [data EXCEPT
                  !.playerSpawn = SpawnAfter(doc.objects, Len(doc.objects)),
                  !.objects = ObjectsAfter(doc.objects, Len(doc.objects))]
    /\ pc' = "validate"
    /\ UNCHANGED <<doc, argc, input_file, json_level, idx, gid_to_game_id,
                   errors, warned, raised, unique_tiles, tile_palette_banks,
                   remapped_layers, collision_bitmap, output_file, exit_code>>

(***************************************************************************)
(* validate_level                                                          *)
(***************************************************************************)
\* One message of the errors list: which check failed, and where.
Err(kind, field, layer, row, col, value) ==
    [kind |-> kind, field |-> field, layer |-> layer, row |-> row, col |-> col,
     value |-> value]

REQUIRED_FIELDS == <<"name", "width", "height", "layers", "playerSpawn">>

\* Lines 219-223.
MissingFieldErrors(d) ==
    LET all == [i \in 1..Len(REQUIRED_FIELDS) |->
                  Err("missing", REQUIRED_FIELDS[i], -1, -1, -1, -1)]
    IN SelectSeq(all, LAMBDA e : e.field \notin DOMAIN d)

\* Lines 232-235.
DimensionErrors(d) ==
    (IF d.width <= 0 \/ d.width > MAX_DIM
     THEN <<Err("width", "", -1, -1, -1, d.width)>> ELSE <<>>)
    \o (IF d.height <= 0 \/ d.height > MAX_DIM
        THEN <<Err("height", "", -1, -1, -1, d.height)>> ELSE <<>>)

\* TileErrors that accepts every tile ID from 0 up.
TileErrors_NoUpperBound(layer_idx, i, row) ==
    LET all == [j \in 1..Len(row) |-> Err("tile", "", layer_idx, i, j - 1, row[j])]
    IN SelectSeq(all, LAMBDA e : e.value < 0)

\* Lines 251-253, for the row with 0-based index i of layer layer_idx.
TileErrors(layer_idx, i, row) ==
    LET all == [j \in 1..Len(row) |-> Err("tile", "", layer_idx, i, j - 1, row[j])]
    IN SelectSeq(all, LAMBDA e : e.value < 0 \/ e.value > MAX_TILE_ID)

\* RowErrors without the check of the row length.
RECURSIVE RowErrors_NoColumnCheck(_, _, _, _)
RowErrors_NoColumnCheck(layer_idx, tiles, width, n) ==
    IF n = 0 THEN <<>>
    ELSE RowErrors_NoColumnCheck(layer_idx, tiles, width, n - 1)
         \o TileErrors(layer_idx, n - 1, tiles[n])

\* Lines 248-253, for the first n rows.
RECURSIVE RowErrors(_, _, _, _)
RowErrors(layer_idx, tiles, width, n) ==
    IF n = 0 THEN <<>>
    ELSE RowErrors(layer_idx, tiles, width, n - 1)
         \o (IF Len(tiles[n]) # width
             THEN <<Err("columns", "", layer_idx, n - 1, -1, Len(tiles[n]))>> ELSE <<>>)
         \o TileErrors(layer_idx, n - 1, tiles[n])

\* Lines 243-253, for the first n layers.
RECURSIVE LayerErrors(_, _)
LayerErrors(d, n) ==
    IF n = 0 THEN <<>>
    ELSE LayerErrors(d, n - 1)
         \o (IF Len(d.layers[n].tiles) # d.height
             THEN <<Err("rows", "", n - 1, -1, -1, Len(d.layers[n].tiles))>> ELSE <<>>)
         \o RowErrors(n - 1, d.layers[n].tiles, d.width, Len(d.layers[n].tiles))

\* SpawnErrors that accepts a spawn point on the right or bottom edge.
SpawnErrors_Inclusive(d) ==
    LET spawn == d.playerSpawn IN
    IF "x" \notin DOMAIN spawn \/ "y" \notin DOMAIN spawn
    THEN <<Err("spawn_fields", "", -1, -1, -1, -1)>>
    ELSE LET level_width_px == d.width * Get(d, "tileWidth", DEFAULT_TILE_SIZE)
             level_height_px == d.height * Get(d, "tileHeight", DEFAULT_TILE_SIZE)
         IN (IF spawn.x < 0 \/ spawn.x > level_width_px
             THEN <<Err("playerSpawn.x", "", -1, -1, -1, spawn.x)>> ELSE <<>>)
            \o (IF spawn.y < 0 \/ spawn.y > level_height_px
                THEN <<Err("playerSpawn.y", "", -1, -1, -1, spawn.y)>> ELSE <<>>)

\* Lines 256-268.
SpawnErrors(d) ==
    LET spawn == d.playerSpawn IN
    IF "x" \notin DOMAIN spawn \/ "y" \notin DOMAIN spawn
    THEN <<Err("spawn_fields", "", -1, -1, -1, -1)>>
    ELSE LET level_width_px == d.width * Get(d, "tileWidth", DEFAULT_TILE_SIZE)
             level_height_px == d.height * Get(d, "tileHeight", DEFAULT_TILE_SIZE)
         IN (IF spawn.x < 0 \/ spawn.x >= level_width_px
             THEN <<Err("playerSpawn.x", "", -1, -1, -1, spawn.x)>> ELSE <<>>)
            \o (IF spawn.y < 0 \/ spawn.y >= level_height_px
                THEN <<Err("playerSpawn.y", "", -1, -1, -1, spawn.y)>> ELSE <<>>)

\* Lines 278-282, for the first n objects.
RECURSIVE PerObjectErrors(_, _)
PerObjectErrors(objects, n) ==
    IF n = 0 THEN <<>>
    ELSE PerObjectErrors(objects, n - 1)
         \o (IF "type" \notin DOMAIN objects[n]
             THEN <<Err("object_type", "", -1, n - 1, -1, -1)>> ELSE <<>>)
         \o (IF "x" \notin DOMAIN objects[n] \/ "y" \notin DOMAIN objects[n]
             THEN <<Err("object_position", "", -1, n - 1, -1, -1)>> ELSE <<>>)

\* Lines 271-282.
ObjectErrors(d) ==
    IF "objects" \notin DOMAIN d THEN <<>>
    ELSE IF Len(d.objects) > MAX_OBJECTS
    THEN <<Err("object_count", "", -1, -1, -1, Len(d.objects))>>
    ELSE PerObjectErrors(d.objects, Len(d.objects))

\* [tile for row in layer['tiles'] for tile in row], over the first n rows.
RECURSIVE FlatTiles(_, _)
FlatTiles(tiles, n) == IF n = 0 THEN <<>> ELSE FlatTiles(tiles, n - 1) \o tiles[n]

\* all_tiles over the first n layers (lines 348-351).
RECURSIVE AllTiles(_, _)
AllTiles(layers, n) ==
    IF n = 0 THEN <<>>
    ELSE AllTiles(layers, n - 1) \o FlatTiles(layers[n].tiles, Len(layers[n].tiles))

\* Lines 285-290: the distinct tile IDs above 0.
NonZeroTiles(d) == {t \in SeqOf(AllTiles(d.layers, Len(d.layers))) : t > 0}

\* VramWarning that counts tile 0 too.
VramWarning_CountsSky(d) ==
    Cardinality(SeqOf(AllTiles(d.layers, Len(d.layers)))) > VRAM_WARN

\* Lines 292-293: the warning is printed, nothing is appended to errors.
VramWarning(d) == Cardinality(NonZeroTiles(d)) > VRAM_WARN

\* CheckErrors that stops at the first message.
CheckErrors_FirstOnly(d) ==
    LET all == DimensionErrors(d)
               \o (IF d.layers = <<>> THEN <<Err("no_layers", "", -1, -1, -1, -1)>> ELSE <<>>)
               \o LayerErrors(d, Len(d.layers))
               \o SpawnErrors(d)
               \o ObjectErrors(d)
    IN IF all = <<>> THEN <<>> ELSE <<all[1]>>

\* Everything appended to errors after the required fields were found
\* (lines 228-282).
CheckErrors(d) ==
    DimensionErrors(d)
    \o (IF d.layers = <<>> THEN <<Err("no_layers", "", -1, -1, -1, -1)>> ELSE <<>>)
    \o LayerErrors(d, Len(d.layers))
    \o SpawnErrors(d)
    \o ObjectErrors(d)

ValidateLevel ==
    /\ pc = "validate"
    /\ IF MissingFieldErrors(data) # <<>>
       THEN /\ errors' = MissingFieldErrors(data)
            /\ Fail("ValueError: validation errors")
            /\ UNCHANGED warned
       ELSE /\ errors' = CheckErrors(data)
            /\ warned' = VramWarning(data)
            /\ IF errors' # <<>>
               THEN Fail("ValueError: validation errors")
               ELSE /\ pc' = "generate"
                    /\ UNCHANGED <<raised, exit_code>>
    /\ UNCHANGED <<doc, argc, input_file, json_level, idx, data,
                   gid_to_game_id, unique_tiles, tile_palette_banks,
                   remapped_layers, collision_bitmap, output_file>>

(***************************************************************************)
(* generate_header                                                         *)
(***************************************************************************)
\* An ascending list without its repeated elements.
Dedup(s) ==
    LET keep == SelectSeq([i \in 1..Len(s) |-> i], LAMBDA i : i = 1 \/ s[i] # s[i - 1])
    IN [k \in 1..Len(keep) |-> s[keep[k]]]

\* sorted(tiles): the repeated tiles are kept.
SortedSet_NoDedup(tiles) == SortSeq(tiles, LAMBDA a, b : a < b)

\* sorted(set(tiles))
SortedSet(tiles) == Dedup(SortSeq(tiles, LAMBDA a, b : a < b))

\* The index (from 1) of x in the ascending list us, between lo and hi.
RECURSIVE IndexOf(_, _, _, _)
IndexOf(us, x, lo, hi) ==
    IF lo >= hi THEN lo
    ELSE LET mid == (lo + hi) \div 2
         IN IF us[mid] >= x THEN IndexOf(us, x, lo, mid) ELSE IndexOf(us, x, mid + 1, hi)

\* tile_id_to_vram: {tile_id: vram_index for vram_index, tile_id in
\* enumerate(unique_tiles)} (lines 383-385).
TileIdToVram(us) == [t \in SeqOf(us) |-> IndexOf(us, t, 1, Len(us)) - 1]

PALETTE_NAMES == {"grassy_stone", "plants", "decals"}
PALETTE_MAP(name) ==
    CASE name = "grassy_stone" -> 0
      [] name = "plants" -> 2
      [] name = "decals" -> 3

\* BankFrom that answers for the last tileset of the list whose range holds
\* tile_id.
RECURSIVE BankFrom_LastOwner(_, _, _)
BankFrom_LastOwner(tilesets, tile_id, k) ==
    IF k > Len(tilesets) THEN 0
    ELSE LET first_id == tilesets[k].firstId
             tile_count == tilesets[k].tileCount
             later == {j \in (k + 1)..Len(tilesets) :
                         /\ tilesets[j].firstId <= tile_id
                         /\ tile_id < tilesets[j].firstId + tilesets[j].tileCount}
         IN IF first_id <= tile_id /\ tile_id < first_id + tile_count /\ later = {}
            THEN IF tilesets[k].name \in PALETTE_NAMES
                 THEN PALETTE_MAP(tilesets[k].name) ELSE 0
            ELSE BankFrom_LastOwner(tilesets, tile_id, k + 1)

\* The first tileset of the list whose range holds tile_id, from index k on
\* (lines 370-377).
RECURSIVE BankFrom(_, _, _)
BankFrom(tilesets, tile_id, k) ==
    IF k > Len(tilesets) THEN 0
    ELSE LET first_id == tilesets[k].firstId
             tile_count == tilesets[k].tileCount
         IN IF first_id <= tile_id /\ tile_id < first_id + tile_count
            THEN IF tilesets[k].name \in PALETTE_NAMES
                 THEN PALETTE_MAP(tilesets[k].name) ELSE 0
            ELSE BankFrom(tilesets, tile_id, k + 1)

get_tile_palette_bank(tilesets, tile_id) ==
    IF tile_id = 0 THEN 0 ELSE BankFrom(tilesets, tile_id, 1)

\* a | b on non-negative integers.
RECURSIVE BitOr(_, _)
BitOr(a, b) ==
    IF a = 0 THEN b
    ELSE IF b = 0 THEN a
    ELSE (IF a % 2 = 1 \/ b % 2 = 1 THEN 1 ELSE 0) + 2 * BitOr(a \div 2, b \div 2)

\* A word of the bitmap is an unsigned 32-bit value, which a signed 32-bit
\* integer cannot hold: it is kept as its two 16-bit halves <<low, high>>.
HALF_BITS == 16
ZeroWord == <<0, 0>>

\* 1 << k, for a k below 32.
ShiftOne(k) == IF k < HALF_BITS THEN <<2 ^ k, 0>> ELSE <<0, 2 ^ (k - HALF_BITS)>>

\* word | mask
WordOr(word, mask) == <<BitOr(word[1], mask[1]), BitOr(word[2], mask[2])>>

\* Bit k of a word: 1 or 0.
WordBit(word, k) ==
    IF k < HALF_BITS THEN (word[1] \div (2 ^ k)) % 2
    ELSE (word[2] \div (2 ^ (k - HALF_BITS))) % 2

\* BitmapAfter that shifts by four bits per byte.
RECURSIVE BitmapAfter_NibbleShift(_, _)
BitmapAfter_NibbleShift(collision_tiles, n) ==
    IF n = 0 THEN [w \in 1..BITMAP_WORDS |-> ZeroWord]
    ELSE LET tile_id == collision_tiles[n]
             byte_index == tile_id \div 8
             bit_index == tile_id % 8
             u32_index == byte_index \div 4
             byte_offset == byte_index % 4
             bitmap == BitmapAfter_NibbleShift(collision_tiles, n - 1)
         IN IF tile_id < 0 \/ tile_id >= BITMAP_BITS
            THEN bitmap
            ELSE [bitmap EXCEPT ![u32_index + 1] =
                    WordOr(@, ShiftOne(bit_index + byte_offset * 4))]

\* generate_collision_bitmap after the first n entries of collision_tiles
\* (lines 316-327); (1 << bit_index) << (byte_offset * 8) is
\* 1 << (bit_index + byte_offset * 8).
RECURSIVE BitmapAfter(_, _)
BitmapAfter(collision_tiles, n) ==
    IF n = 0 THEN [w \in 1..BITMAP_WORDS |-> ZeroWord]
    ELSE LET tile_id == collision_tiles[n]
             byte_index == tile_id \div 8
             bit_index == tile_id % 8
             u32_index == byte_index \div 4
             byte_offset == byte_index % 4
             bitmap == BitmapAfter(collision_tiles, n - 1)
         IN IF tile_id < 0 \/ tile_id >= BITMAP_BITS
            THEN bitmap
            ELSE [bitmap EXCEPT ![u32_index + 1] =
                    WordOr(@, ShiftOne(bit_index + byte_offset * 8))]

generate_collision_bitmap(collision_tiles) ==
    BitmapAfter(collision_tiles, Len(collision_tiles))

\* remapped_collision_tiles (lines 401-405).
RemapCollision(collision_tiles, us) ==
    LET present == SelectSeq(collision_tiles, LAMBDA t : t \in SeqOf(us))
        table == TileIdToVram(us)
    IN [i \in 1..Len(present) |-> table[present[i]]]

\* RemapLayer that looks every tile up one index too high.
RemapLayer_OffByOne(layer, us) ==
    LET table == TileIdToVram(us)
        flat_tiles == FlatTiles(layer.tiles, Len(layer.tiles))
    IN [i \in 1..Len(flat_tiles) |-> (table[flat_tiles[i]] + 1) % Len(us)]

\* remapped_tiles of one layer (lines 390-391).
RemapLayer(layer, us) ==
    LET table == TileIdToVram(us)
        flat_tiles == FlatTiles(layer.tiles, Len(layer.tiles))
    IN [i \in 1..Len(flat_tiles) |-> table[flat_tiles[i]]]

GenerateHeader ==
    /\ pc = "generate"
    /\ unique_tiles' = SortedSet(AllTiles(data.layers, Len(data.layers)))
    /\ tile_palette_banks' =
         [s \in 1..Len(unique_tiles') |->
            get_tile_palette_bank(Get(data, "tilesets", <<>>), unique_tiles'[s])]
    /\ remapped_layers' =
         [l \in 1..Len(data.layers) |-> RemapLayer(data.layers[l], unique_tiles')]
    /\ collision_bitmap' =
         generate_collision_bitmap(
            RemapCollision(Get(data, "collisionTiles", DEFAULT_COLLISION_TILES),
                           unique_tiles'))
    /\ pc' = "write"
    /\ UNCHANGED <<doc, argc, input_file, json_level, idx, data,
                   gid_to_game_id, errors, warned, raised, output_file,
                   exit_code>>

(***************************************************************************)
(* main: the write of the output file (lines 550-558).                     *)
(***************************************************************************)
WriteOutput ==
    /\ pc = "write"
    /\ output_file' = "written"
    /\ exit_code' = 0
    /\ pc' = "done"
    /\ UNCHANGED <<doc, argc, input_file, json_level, idx, data,
                   gid_to_game_id, errors, warned, raised, unique_tiles,
                   tile_palette_banks, remapped_layers, collision_bitmap>>

\* WriteFails that swallows the error and reports success.
WriteFails_ExitsZero ==
    /\ pc = "write"
    /\ raised' = "OSError"
    /\ exit_code' = 0
    /\ pc' = "done"
    /\ output_file' \in {"absent", "partial"}
    /\ UNCHANGED <<doc, argc, input_file, json_level, idx, data,
                   gid_to_game_id, errors, warned, unique_tiles,
                   tile_palette_banks, remapped_layers, collision_bitmap>>

\* open() raises OSError and leaves the file untouched, or f.write() raises
\* it after open() truncated the file: the handler of Exception exits with
\* code 1.
WriteFails ==
    /\ pc = "write"
    /\ Fail("OSError")
    /\ output_file' \in {"absent", "partial"}
    /\ UNCHANGED <<doc, argc, input_file, json_level, idx, data,
                   gid_to_game_id, errors, warned, unique_tiles,
                   tile_palette_banks, remapped_layers, collision_bitmap>>

Next ==
    \/ Main
    \/ ParseXmlFails
    \/ ParseMap
    \/ ParseTileset
    \/ ParseLayers
    \/ ParseObjects
    \/ ValidateLevel
    \/ GenerateHeader
    \/ WriteOutput
    \/ WriteFails

Spec == Init /\ [][Next]_vars

(***************************************************************************)
(* validate_level and generate_header called on a dictionary that did not  *)
(* come from parse_tmx_file: any key may be absent, and collisionTiles is  *)
(* whatever the caller configured.                                         *)
(***************************************************************************)
Drop(d, keys) == [k \in (DOMAIN d) \ keys |-> d[k]]

ApiGrid(w, h, pat) ==
    [r \in 1..h |-> [c \in 1..w |-> pat[(((r - 1) * w + c - 1) % Len(pat)) + 1]]]

ApiLayer(tiles) == [name |-> 0, bgLayer |-> 2, priority |-> 1, tiles |-> tiles]

ApiLevel(w, h, layers, spawn, objects, tilesets, collisionTiles) ==
    [name |-> "Untitled Level", width |-> w, height |-> h,
     tileWidth |-> DEFAULT_TILE_SIZE, tileHeight |-> DEFAULT_TILE_SIZE,
     layers |-> layers, objects |-> objects, playerSpawn |-> spawn,
     tilesets |-> tilesets, collisionTiles |-> collisionTiles]

\* The three tilesets of the game, as parse_tmx_file lists them.
GameTilesets ==
    << [name |-> "grassy_stone", firstId |-> GRASSY_FIRST,
        tileCount |-> PLANTS_FIRST - GRASSY_FIRST],
       [name |-> "plants", firstId |-> PLANTS_FIRST,
        tileCount |-> DECALS_FIRST - PLANTS_FIRST],
       [name |-> "decals", firstId |-> DECALS_FIRST, tileCount |-> BITMAP_BITS] >>

ApiTiles == {0, 1, 2, PLANTS_FIRST, DECALS_FIRST}
ApiPatterns ==
    { <<a>> : a \in ApiTiles } \cup { <<a, b>> : a \in ApiTiles, b \in ApiTiles \ {0} }

SolidConfigs ==
    { <<>>, <<0>>, <<1>>, <<0, 1>>, <<2, 1, 1>>, <<PLANTS_FIRST, 7>>,
      DEFAULT_COLLISION_TILES }

Origin == [x |-> 0, y |-> 0]

\* Valid levels under every configured solid set, and under the default one
\* that an absent key selects.
ApiSolid ==
    { ApiLevel(w, h, <<ApiLayer(ApiGrid(w, h, p))>>, Origin, <<>>, ts, solid) :
        w \in 1..MaxCols, h \in 1..MaxRows, p \in ApiPatterns,
        ts \in {<<>>, GameTilesets}, solid \in SolidConfigs }
    \cup { Drop(ApiLevel(w, h, <<ApiLayer(ApiGrid(w, h, p))>>, Origin, <<>>, <<>>, <<>>),
                {"collisionTiles", "tilesets"}) :
             w \in 1..MaxCols, h \in 1..MaxRows, p \in ApiPatterns }

\* Levels of BigRows rows of MAX_DIM cells that use the tile IDs 0..n-1, so
\* that a tile's VRAM index is its ID, with solid tiles at the word
\* boundaries and at the end of the bitmap.
ApiBigSolid ==
    { <<31, 32, 63, BITMAP_BITS - 1, BITMAP_BITS, BITMAP_BITS + 1>>,
      <<BITMAP_BITS - 33, 7, 8, 31>> }
ApiBig ==
    { ApiLevel(MAX_DIM, BigRows,
               <<ApiLayer([r \in 1..BigRows |->
                             [c \in 1..MAX_DIM |-> ((r - 1) * MAX_DIM + c - 1) % n]])>>,
               Origin, <<>>, GameTilesets, solid) :
        n \in {BITMAP_BITS - 1, BITMAP_BITS, BITMAP_BITS + 1}, solid \in ApiBigSolid }

\* Levels with faults: absent keys, a bad width, a bad grid, a bad spawn
\* point, bad objects, in every combination.
ApiDropped ==
    { {}, {"name"}, {"width"}, {"name", "height"}, {"layers"}, {"playerSpawn"},
      {"objects"}, {"tileWidth", "tileHeight"} }
ApiFaultWidths == {0, 1, MAX_DIM + 1}
ApiFaultGrids ==
    { <<<<1>>>>, <<<<1>>, <<2>>>>, <<<<1, 2>>>>, <<<<MAX_TILE_ID + 1>>>>, <<<<-1, 0>>>> }
ApiFaultSpawns ==
    { Origin, [x |-> DEFAULT_TILE_SIZE, y |-> 0], [x |-> -1, y |-> DEFAULT_TILE_SIZE],
      [y |-> 0] }
GoodObject == [type |-> "enemy", x |-> 0, y |-> 0]
ApiFaultObjects ==
    { <<>>, <<GoodObject>>, <<[x |-> 0, y |-> 0]>>, <<GoodObject, [type |-> "enemy"]>>,
      <<[x |-> 0]>>,
      [i \in 1..(MAX_OBJECTS + 1) |-> GoodObject],
      [i \in 1..(MAX_OBJECTS + 1) |-> IF i = 1 THEN [x |-> 0, y |-> 0] ELSE GoodObject] }
ApiFaulty ==
    { Drop(ApiLevel(w, 1, <<ApiLayer(g)>>, spawn, objs, <<>>, DEFAULT_COLLISION_TILES),
           dropped) :
        w \in ApiFaultWidths, g \in ApiFaultGrids, spawn \in ApiFaultSpawns,
        objs \in ApiFaultObjects, dropped \in ApiDropped }

ApiData == ApiSolid \cup ApiBig \cup ApiFaulty

InitApi ==
    /\ data \in ApiData
    /\ pc = "validate"
    /\ doc = NoDoc
    /\ argc = ARGC
    /\ input_file = "tmx"
    /\ json_level = NoJson
    /\ idx = 0
    /\ gid_to_game_id = <<>>
    /\ errors = <<>>
    /\ warned = FALSE
    /\ raised = ""
    /\ unique_tiles = <<>>
    /\ tile_palette_banks = <<>>
    /\ remapped_layers = <<>>
    /\ collision_bitmap = <<>>
    /\ output_file = "absent"
    /\ exit_code = -1

NextApi ==
    \/ ValidateLevel
    \/ GenerateHeader

SpecApi == InitApi /\ [][NextApi]_vars

(***************************************************************************)
(* tools/json_to_tmx.py: a JSON level, whose tiles are game tile IDs, is   *)
(* written as a TMX document, which parse_tmx_file then reads.             *)
(***************************************************************************)
\* The first GIDs the written document declares (lines 52-63) and the number
\* of tiles of each tileset (lines 69-78).
TMX_GRASSY_FIRST == 1
TMX_DECALS_FIRST == 56
TMX_PLANTS_FIRST == 1281
GRASSY_TILES == 55
PLANTS_TILES == 160
DECALS_TILES == 1225

\* The last game tile ID json_to_tmx has a GID for.
LAST_GAME_ID == DECALS_FIRST + DECALS_TILES - 1

\* game_to_tmx that writes every game ID as the GID of the same number.
game_to_tmx_SameNumber(tile_id) ==
    IF tile_id >= 0 /\ tile_id <= LAST_GAME_ID THEN tile_id ELSE 0

\* game_to_tmx.get(tile_id, 0) (lines 66-78 and 95).
game_to_tmx(tile_id) ==
    IF tile_id = 0 THEN 0
    ELSE IF GRASSY_FIRST <= tile_id /\ tile_id < GRASSY_FIRST + GRASSY_TILES
    THEN TMX_GRASSY_FIRST + (tile_id - GRASSY_FIRST)
    ELSE IF PLANTS_FIRST <= tile_id /\ tile_id < PLANTS_FIRST + PLANTS_TILES
    THEN TMX_PLANTS_FIRST + (tile_id - PLANTS_FIRST)
    ELSE IF DECALS_FIRST <= tile_id /\ tile_id < DECALS_FIRST + DECALS_TILES
    THEN TMX_DECALS_FIRST + (tile_id - DECALS_FIRST)
    ELSE 0

\* The text of the data element (lines 91-99): the rows joined by ",\n".
CsvLines(tiles) ==
    [r \in 1..Len(tiles) |->
        LET tmx_row == [c \in 1..Len(tiles[r]) |-> game_to_tmx(tiles[r][c])]
        IN IF r < Len(tiles) THEN Append(tmx_row, Blank) ELSE tmx_row]

\* The tileset elements of the written document, with the tile counts of
\* the TSX files they name.
WrittenTilesets ==
    << Tileset("grassy_stone", TMX_GRASSY_FIRST, GRASSY_TILES),
       Tileset("decals", TMX_DECALS_FIRST, DECALS_TILES),
       Tileset("plants", TMX_PLANTS_FIRST, PLANTS_TILES) >>

\* The object group (lines 101-123): the spawn point, when the level has
\* one, as an object named and typed PlayerSpawn.
WrittenObjects(level) ==
    IF "playerSpawn" \in DOMAIN level
    THEN <<Object("PlayerSpawn", "PlayerSpawn",
                  2 * level.playerSpawn.x, 2 * level.playerSpawn.y)>>
    ELSE <<>>

\* JSON levels: grids whose rows have the given lengths, empty rows among
\* them, over the tile IDs at the ends of the three ranges and one ID past
\* the last; and one grid that holds every game tile ID once.
JsonShapes ==
    { <<>>, <<1>>, <<2>>, <<2, 2>>, <<2, 1>>, <<1, 2>>, <<0, 2>>, <<2, 0>>, <<0, 0>>,
      <<2, 0, 2>> }
EdgeGameIds ==
    { 0, GRASSY_FIRST, PLANTS_FIRST - 1, PLANTS_FIRST, DECALS_FIRST - 1, DECALS_FIRST,
      LAST_GAME_ID, LAST_GAME_ID + 1 }
JsonGrid(shape, pat) ==
    [r \in 1..Len(shape) |->
        [c \in 1..shape[r] |-> pat[((RowStart(shape, r) + c - 1) % Len(pat)) + 1]]]
JsonLevel(width, height, tiles) == [width |-> width, height |-> height, tiles |-> tiles]
ALL_IDS_WIDTH == 131
ALL_IDS_HEIGHT == 11
JsonLevels ==
    { JsonLevel(IF sh = <<>> THEN 0 ELSE sh[1], Len(sh), JsonGrid(sh, <<a, b>>)) :
        sh \in JsonShapes, a \in EdgeGameIds, b \in EdgeGameIds }
    \cup { JsonLevel(ALL_IDS_WIDTH, ALL_IDS_HEIGHT,
                     [r \in 1..ALL_IDS_HEIGHT |->
                        [c \in 1..ALL_IDS_WIDTH |-> (r - 1) * ALL_IDS_WIDTH + c - 1]]) }
    \cup { [width |-> 1, height |-> 1, tiles |-> <<<<t>>>>,
            playerSpawn |-> [x |-> 3, y |-> 4]] : t \in EdgeGameIds }

InitJson ==
    /\ json_level \in JsonLevels
    /\ pc = "json_to_tmx"
    /\ doc = NoDoc
    /\ argc = ARGC
    /\ input_file = "tmx"
    /\ idx = 0
    /\ data = NoData
    /\ gid_to_game_id = <<>>
    /\ errors = <<>>
    /\ warned = FALSE
    /\ raised = ""
    /\ unique_tiles = <<>>
    /\ tile_palette_banks = <<>>
    /\ remapped_layers = <<>>
    /\ collision_bitmap = <<>>
    /\ output_file = "absent"
    /\ exit_code = -1

\* json_to_tmx (lines 14-157): the document it writes.
JsonToTmx ==
    /\ pc = "json_to_tmx"
    /\ doc' = [width |-> json_level.width, height |-> json_level.height,
               tilewidth |-> Get(json_level, "tileWidth", DEFAULT_TILE_SIZE),
               tileheight |-> Get(json_level, "tileHeight", DEFAULT_TILE_SIZE),
               tilesets |-> WrittenTilesets,
               layers |-> <<Layer("csv", <<>>, CsvLines(json_level.tiles))>>,
               objects |-> WrittenObjects(json_level)]
    /\ pc' = "parse_map"
    /\ UNCHANGED <<argc, input_file, json_level, idx, data, gid_to_game_id, errors,
                   warned, raised, unique_tiles, tile_palette_banks, remapped_layers,
                   collision_bitmap, output_file, exit_code>>

NextJson ==
    \/ JsonToTmx
    \/ ParseMap
    \/ ParseTileset
    \/ ParseLayers
    \/ ParseObjects

SpecJson == InitJson /\ [][NextJson]_vars

(***************************************************************************)
(* Properties.                                                             *)
(***************************************************************************)
\* generate_header has returned.
HeaderGenerated == pc = "write" \/ (pc = "done" /\ raised \in {"", "OSError"})

\* C1: for every document that parse_tmx_file produced and validate_level
\* accepted, generate_header emits one list per layer, of exactly
\* height * width VRAM indices, each in [0, len(unique_tiles)).
C1_SlotGridShape ==
    HeaderGenerated =>
        /\ Len(remapped_layers) = Len(data.layers)
        /\ \A l \in 1..Len(remapped_layers) :
              /\ Len(remapped_layers[l]) = data.height * data.width
              /\ \A i \in 1..Len(remapped_layers[l]) :
                    /\ remapped_layers[l][i] >= 0
                    /\ remapped_layers[l][i] < Len(unique_tiles)

C1_Witness ==
    /\ HeaderGenerated
    /\ Len(remapped_layers) = 2
    /\ data.height * data.width = MaxRows * MaxCols
    /\ Len(unique_tiles) >= 3
    /\ \E i \in 1..Len(remapped_layers[1]) : remapped_layers[1][i] = Len(unique_tiles) - 1

\* C2: the VRAM index is a relabeling: for every layer and every cell, in
\* row-major order, unique_tiles at the emitted index is the tile ID the
\* layer held in that cell.
C2_SlotRoundTrip ==
    HeaderGenerated =>
        \A l \in 1..Len(data.layers) :
           \A r \in 1..data.height :
              \A c \in 1..data.width :
                 unique_tiles[remapped_layers[l][(r - 1) * data.width + c] + 1]
                    = data.layers[l].tiles[r][c]

C2_Witness ==
    /\ HeaderGenerated
    /\ data.height = MaxRows
    /\ data.width = MaxCols
    /\ Len(unique_tiles) >= 2
    /\ data.layers[1].tiles[1][1] > data.layers[1].tiles[1][2]
    /\ remapped_layers[1][MaxCols + 1] > remapped_layers[1][MaxCols + 2]

\* C3: unique_tiles is strictly ascending (so without duplicates), holds
\* exactly the tile IDs that occur in some cell of some layer, and holds 0
\* at index 0 whenever some cell holds 0.
C3_UniqueTilesSortedExact ==
    HeaderGenerated =>
        LET used == UNION { UNION { SeqOf(data.layers[l].tiles[r]) :
                                      r \in 1..Len(data.layers[l].tiles) } :
                            l \in 1..Len(data.layers) }
        IN /\ \A i \in 1..(Len(unique_tiles) - 1) : unique_tiles[i] < unique_tiles[i + 1]
           /\ SeqOf(unique_tiles) = used
           /\ 0 \in used => unique_tiles[1] = 0

C3_Witness ==
    /\ HeaderGenerated
    /\ Len(unique_tiles) = 3
    /\ unique_tiles[1] = 0
    /\ Len(data.layers) = 2
    /\ data.height = MaxRows
    /\ data.layers[2].tiles[1][1] = 0
    /\ data.layers[1].tiles[1][1] = data.layers[1].tiles[2][1]

\* The distinct tile IDs in the cells of the layers of d.
UsedTiles(d) ==
    UNION { UNION { SeqOf(d.layers[l].tiles[r]) : r \in 1..Len(d.layers[l].tiles) } :
            l \in 1..Len(d.layers) }

\* The bit of VRAM index s in the collision table: bit s % 32 of word s / 32.
CollisionBit(s) == WordBit(collision_bitmap[(s \div 32) + 1], s % 32)

\* C4: when unique_tiles has at most 2048 entries, the table has 64 words
\* of 32 bits, and for every s in [0, 2048) the bit of s is set exactly
\* when s is the index of a tile ID that is in the configured solid set.
C4_CollisionBitmap ==
    (HeaderGenerated /\ Len(unique_tiles) <= BITMAP_BITS) =>
        LET solid == SeqOf(Get(data, "collisionTiles", DEFAULT_COLLISION_TILES)) IN
        /\ Len(collision_bitmap) = BITMAP_WORDS
        /\ \A w \in 1..BITMAP_WORDS :
              /\ collision_bitmap[w][1] \in 0..(2 ^ HALF_BITS - 1)
              /\ collision_bitmap[w][2] \in 0..(2 ^ HALF_BITS - 1)
        /\ \A s \in 0..(BITMAP_BITS - 1) :
              (CollisionBit(s) = 1) <=> (s < Len(unique_tiles) /\ unique_tiles[s + 1] \in solid)

C4_Witness ==
    /\ HeaderGenerated
    /\ Len(unique_tiles) = BITMAP_BITS
    /\ CollisionBit(BITMAP_BITS - 1) = 1
    /\ CollisionBit(32) = 1
    /\ CollisionBit(33) = 0
    /\ BITMAP_BITS \in SeqOf(data.collisionTiles)

\* C5: a level whose layers use more than 2048 distinct tile IDs does not
\* compile: no header is generated, no file is written, and main does not
\* exit with code 0.
C5_CapacityExceeded ==
    (pc \in {"write", "done"} /\ Cardinality(UsedTiles(data)) > BITMAP_BITS) =>
        /\ pc = "done"
        /\ unique_tiles = <<>>
        /\ output_file = "absent"
        /\ exit_code = 1

\* validate_level has returned or raised.
Validated ==
    \/ pc \in {"generate", "write"}
    \/ pc = "done" /\ raised \in {"", "OSError", "ValueError: validation errors"}

\* C6, as claimed: a document without violations whose unique_tiles has
\* between 1001 and 2048 entries passes validation with the warning printed.
C6_WarningFrom1001 ==
    (/\ Validated
     /\ errors = <<>>
     /\ Cardinality(UsedTiles(data)) > VRAM_WARN
     /\ Cardinality(UsedTiles(data)) <= BITMAP_BITS) =>
        /\ warned
        /\ raised # "ValueError: validation errors"

\* C6, amended: a document without violations passes validation whatever
\* the number of tiles, and the warning is printed exactly when more than
\* 1000 distinct tile IDs other than 0 are used.
C6_WarningCountsNonZero ==
    (Validated /\ errors = <<>>) =>
        /\ raised # "ValueError: validation errors"
        /\ warned <=> (Cardinality(UsedTiles(data) \ {0}) > VRAM_WARN)

C6_Witness ==
    /\ HeaderGenerated
    /\ warned
    /\ Len(unique_tiles) = VRAM_WARN + 1
    /\ exit_code = 0

\* The tileset loop of parse_tmx_file has ended.
TableBuilt ==
    /\ pc \notin {"main", "parse_map"}
    /\ raised \notin {"usage", "input file not found", "ParseError"}
    /\ ~(pc = "parse_tilesets" /\ idx <= Len(doc.tilesets))

\* Tileset k of the document was resolved and its declared range holds g.
Covers(k, g) ==
    /\ doc.tilesets[k].source
    /\ doc.tilesets[k].firstgid <= g
    /\ g < doc.tilesets[k].firstgid + doc.tilesets[k].tileCount

CanonicalId(k, g) ==
    (IF doc.tilesets[k].name \in EXPECTED_NAMES
     THEN EXPECTED_RANGES(doc.tilesets[k].name)
     ELSE doc.tilesets[k].firstgid) + (g - doc.tilesets[k].firstgid)

\* The GIDs looked at: those of every declared range, and some around them.
ProbedGids ==
    (-1..(MaxGid + 2))
    \cup UNION { doc.tilesets[k].firstgid
                   ..(doc.tilesets[k].firstgid + doc.tilesets[k].tileCount - 1) :
                 k \in 1..Len(doc.tilesets) }

C8_SkyNeverSolid ==
    HeaderGenerated =>
        \A s \in 1..Len(unique_tiles) :
           (unique_tiles[s] = 0 /\ s <= BITMAP_BITS) => CollisionBit(s - 1) = 0

(* The violations present in a dictionary d, check by check, as a set of   *)
(* messages; a check that reads an absent key finds nothing.               *)
HasKeys(d, keys) == keys \subseteq DOMAIN d

MissingViolations(d) ==
    { Err("missing", f, -1, -1, -1, -1) :
        f \in {"name", "width", "height", "layers", "playerSpawn"} \ DOMAIN d }

DimensionViolations(d) ==
    { Err(k, "", -1, -1, -1, d[k]) :
        k \in {k \in {"width", "height"} \cap DOMAIN d : d[k] < 1 \/ d[k] > MAX_DIM} }

GridViolations(d) ==
    IF ~HasKeys(d, {"layers"}) THEN {}
    ELSE (IF Len(d.layers) = 0 THEN {Err("no_layers", "", -1, -1, -1, -1)} ELSE {})
         \cup { Err("rows", "", l - 1, -1, -1, Len(d.layers[l].tiles)) :
                  l \in {l \in 1..Len(d.layers) :
                           HasKeys(d, {"height"}) /\ Len(d.layers[l].tiles) # d.height} }
         \cup UNION { { Err("columns", "", l - 1, r - 1, -1, Len(d.layers[l].tiles[r])) :
                          r \in {r \in 1..Len(d.layers[l].tiles) :
                                   /\ HasKeys(d, {"width"})
                                   /\ Len(d.layers[l].tiles[r]) # d.width} } :
                      l \in 1..Len(d.layers) }
         \cup UNION { UNION { { Err("tile", "", l - 1, r - 1, c - 1, d.layers[l].tiles[r][c]) :
                                  c \in {c \in 1..Len(d.layers[l].tiles[r]) :
                                           \/ d.layers[l].tiles[r][c] < 0
                                           \/ d.layers[l].tiles[r][c] > MAX_TILE_ID} } :
                              r \in 1..Len(d.layers[l].tiles) } :
                      l \in 1..Len(d.layers) }

SpawnViolations(d) ==
    IF ~HasKeys(d, {"playerSpawn"}) THEN {}
    ELSE IF ~HasKeys(d.playerSpawn, {"x", "y"})
    THEN {Err("spawn_fields", "", -1, -1, -1, -1)}
    ELSE (IF /\ HasKeys(d, {"width"})
             /\ ~(/\ 0 <= d.playerSpawn.x
                  /\ d.playerSpawn.x
                       < d.width * (IF HasKeys(d, {"tileWidth"}) THEN d.tileWidth
                                    ELSE DEFAULT_TILE_SIZE))
          THEN {Err("playerSpawn.x", "", -1, -1, -1, d.playerSpawn.x)} ELSE {})
         \cup (IF /\ HasKeys(d, {"height"})
                  /\ ~(/\ 0 <= d.playerSpawn.y
                       /\ d.playerSpawn.y
                            < d.height * (IF HasKeys(d, {"tileHeight"}) THEN d.tileHeight
                                          ELSE DEFAULT_TILE_SIZE))
               THEN {Err("playerSpawn.y", "", -1, -1, -1, d.playerSpawn.y)} ELSE {})

ObjectCountViolations(d) ==
    IF HasKeys(d, {"objects"}) /\ Len(d.objects) > MAX_OBJECTS
    THEN {Err("object_count", "", -1, -1, -1, Len(d.objects))} ELSE {}

PerObjectViolations(d) ==
    IF ~HasKeys(d, {"objects"}) THEN {}
    ELSE { Err("object_type", "", -1, i - 1, -1, -1) :
             i \in {i \in 1..Len(d.objects) : ~HasKeys(d.objects[i], {"type"})} }
         \cup { Err("object_position", "", -1, i - 1, -1, -1) :
                  i \in {i \in 1..Len(d.objects) : ~HasKeys(d.objects[i], {"x", "y"})} }

Violations(d) ==
    MissingViolations(d) \cup DimensionViolations(d) \cup GridViolations(d)
    \cup SpawnViolations(d) \cup ObjectCountViolations(d) \cup PerObjectViolations(d)

C10_SpawnBounds ==
    Validated =>
        LET x == data.playerSpawn.x
            y == data.playerSpawn.y
            x_inside == 0 <= x /\ x < data.width * data.tileWidth
            y_inside == 0 <= y /\ y < data.height * data.tileHeight
            named(k) == \E i \in 1..Len(errors) : errors[i].kind = k
        IN /\ named("playerSpawn.x") <=> ~x_inside
           /\ named("playerSpawn.y") <=> ~y_inside
           /\ \A i \in 1..Len(errors) :
                 /\ errors[i].kind = "playerSpawn.x" => errors[i].value = x
                 /\ errors[i].kind = "playerSpawn.y" => errors[i].value = y
           /\ (~x_inside \/ ~y_inside) =>
                 /\ pc = "done"
                 /\ raised = "ValueError: validation errors"
                 /\ exit_code = 1
           /\ pc \in {"generate", "write"} => (x_inside /\ y_inside)

C10_Witness ==
    /\ Validated
    /\ data.playerSpawn.x = data.width * data.tileWidth
    /\ data.playerSpawn.y = data.height * data.tileHeight - 1
    /\ Len(errors) = 1
    /\ errors[1].kind = "playerSpawn.x"
    /\ data.objects = <<>>

\* parse_tmx_file has returned its dictionary.
Parsed == pc \in {"validate", "generate", "write"} \/ (pc = "done" /\ errors # <<>>)
          \/ (pc = "done" /\ raised \in {"", "OSError"})

\* The objects of the document that name the player spawn, by position in
\* document order.
SpawnIndices ==
    { i \in 1..Len(doc.objects) :
        \/ doc.objects[i].type \in {"PlayerSpawn", "playerspawn", "PLAYERSPAWN"}
        \/ doc.objects[i].name \in {"PlayerSpawn", "playerspawn", "PLAYERSPAWN"} }

\* The position in document order of the k-th object that is not a spawn.
RegularIndex(k) ==
    CHOOSE j \in (1..Len(doc.objects)) \ SpawnIndices :
        Cardinality({i \in (1..j) \ SpawnIndices : TRUE}) = k

\* C11: after parse_tmx_file the spawn point is the (integer) position of the
\* last object in document order whose type or name is "PlayerSpawn" in any
\* letter case, (0,0) when there is none; the object list holds exactly the
\* other objects, each once, in document order.
C11_LastSpawnWins ==
    Parsed =>
        /\ data.playerSpawn =
              IF SpawnIndices = {} THEN [x |-> 0, y |-> 0]
              ELSE LET last == CHOOSE i \in SpawnIndices : \A j \in SpawnIndices : j <= i
                   IN [x |-> IntOfFloat(doc.objects[last].x2),
                       y |-> IntOfFloat(doc.objects[last].y2)]
        /\ Len(data.objects) = Len(doc.objects) - Cardinality(SpawnIndices)
        /\ \A k \in 1..Len(data.objects) :
              LET obj == doc.objects[RegularIndex(k)]
              IN /\ data.objects[k].x = IntOfFloat(obj.x2)
                 /\ data.objects[k].y = IntOfFloat(obj.y2)
                 /\ data.objects[k].type =
                       IF obj.type # "" THEN obj.type
                       ELSE IF obj.name # "" THEN obj.name ELSE "object"

C11_Witness ==
    /\ Parsed
    /\ Len(doc.objects) = MaxObjects
    /\ SpawnIndices = {1, 2}
    /\ data.playerSpawn = [x |-> 1, y |-> 2]
    /\ Len(data.objects) = 1
    /\ data.objects[1].x = 2

\* main() failed in parse_tmx_file, validate_level or before them.
FailedBeforeWrite ==
    raised \in {"usage", "input file not found", "ParseError",
                "ValueError: unsupported encoding", "ValueError: validation errors"}

\* C12: the output file is touched only by the step that follows a
\* successful parse, validation and header generation; on a run that fails
\* in one of those stages it is never created, truncated or written.
C12_OutputOnlyAfterGeneration ==
    /\ [](FailedBeforeWrite => output_file = "absent")
    /\ [](output_file # "absent" =>
            /\ pc = "done"
            /\ errors = <<>>
            /\ Len(remapped_layers) = Len(data.layers)
            /\ Len(collision_bitmap) = BITMAP_WORDS)
    /\ [][output_file' # output_file =>
            /\ pc = "write"
            /\ raised = ""
            /\ errors = <<>>
            /\ Len(collision_bitmap) = BITMAP_WORDS]_vars

C12_Witness ==
    /\ pc = "done"
    /\ raised = "ValueError: unsupported encoding"
    /\ \E l \in 1..Len(doc.layers) : doc.layers[l].encoding = "base64"
    /\ output_file = "absent"
    /\ exit_code = 1

\* C13: main() exits with code 0 only when the arguments were right, the
\* input was parsed, validated and compiled and the output file was written
\* in full; every other run exits with code 1, and no exit code is set
\* before main() ends.
C13_ExitCodes ==
    /\ (pc # "done") <=> (exit_code = -1)
    /\ pc = "done" =>
          /\ exit_code \in {0, 1}
          /\ (exit_code = 0) <=>
                /\ argc = ARGC
                /\ input_file = "tmx"
                /\ raised = ""
                /\ errors = <<>>
                /\ \A l \in 1..Len(doc.layers) : doc.layers[l].encoding \in {"csv", "none"}
                /\ Len(collision_bitmap) = BITMAP_WORDS
                /\ output_file = "written"
          /\ (\/ argc # ARGC
              \/ input_file # "tmx"
              \/ raised # ""
              \/ errors # <<>>
              \/ output_file # "written") => exit_code = 1

C13_Witness ==
    /\ pc = "done"
    /\ raised = "OSError"
    /\ output_file = "partial"
    /\ Len(collision_bitmap) = BITMAP_WORDS
    /\ exit_code = 1

\* The dictionary validate_level was given has a layer whose grid is not
\* height rows of width cells.
BadGrid ==
    \E l \in 1..Len(data.layers) :
        \/ Len(data.layers[l].tiles) # data.height
        \/ \E r \in 1..Len(data.layers[l].tiles) : Len(data.layers[l].tiles[r]) # data.width

\* ... or a cell outside 0..65535.
BadCell ==
    \E l \in 1..Len(data.layers) : \E r \in 1..Len(data.layers[l].tiles) :
        \E c \in 1..Len(data.layers[l].tiles[r]) :
            data.layers[l].tiles[r][c] \notin 0..MAX_TILE_ID

BadDimension == data.width \notin 1..MAX_DIM \/ data.height \notin 1..MAX_DIM

Rejected ==
    /\ pc = "done"
    /\ raised = "ValueError: validation errors"
    /\ exit_code = 1
    /\ unique_tiles = <<>>
    /\ remapped_layers = <<>>

\* C14: validate_level rejects every dictionary whose width or height is
\* outside 1..256, or that has a layer without exactly height rows, a row
\* without exactly width cells, or a cell outside 0..65535, and names the
\* failed check; so every grid that generate_header is given by main() has
\* height rows of width cells in 0..65535.
C14_RejectsBadGrids ==
    Validated =>
        /\ (BadDimension \/ BadGrid \/ BadCell) => Rejected
        /\ BadDimension =>
              \E i \in 1..Len(errors) : errors[i].kind \in {"width", "height"}
        /\ BadGrid => \E i \in 1..Len(errors) : errors[i].kind \in {"rows", "columns"}
        /\ BadCell => \E i \in 1..Len(errors) : errors[i].kind = "tile"
        /\ ~Rejected =>
              \A l \in 1..Len(data.layers) :
                  /\ Len(data.layers[l].tiles) = data.height
                  /\ \A r \in 1..data.height :
                        /\ Len(data.layers[l].tiles[r]) = data.width
                        /\ \A c \in 1..data.width :
                              data.layers[l].tiles[r][c] \in 0..MAX_TILE_ID

C14_Witness ==
    /\ Rejected
    /\ ~BadDimension
    /\ ~BadGrid
    /\ Len(errors) = 1
    /\ errors[1].kind = "tile"
    /\ errors[1].value = MAX_TILE_ID + 1
    /\ \E l \in 1..Len(data.layers) : \E r \in 1..Len(data.layers[l].tiles) :
          \E c \in 1..Len(data.layers[l].tiles[r]) :
              data.layers[l].tiles[r][c] = MAX_TILE_ID

\* The tilesets of the level whose range [firstId, firstId + tileCount)
\* holds the tile ID, by position in the level's tileset list.
Owners(id) ==
    { k \in 1..Len(data.tilesets) :
        /\ data.tilesets[k].firstId <= id
        /\ id < data.tilesets[k].firstId + data.tilesets[k].tileCount }

\* The palette bank registered for a tileset name, 0 for a name that is not
\* registered.
RegisteredBank(name) ==
    CASE name = "grassy_stone" -> 0
      [] name = "plants" -> 2
      [] name = "decals" -> 3
      [] OTHER -> 0

\* The position in the document of the tileset element that became entry k
\* of the level's tileset list.
DocPosition(k) ==
    CHOOSE i \in 1..Len(doc.tilesets) : doc.tilesets[i].name = data.tilesets[k].name

RangesOverlap ==
    \E i, j \in 1..Len(data.tilesets) :
        /\ i # j
        /\ data.tilesets[i].tileCount > 0
        /\ data.tilesets[j].tileCount > 0
        /\ data.tilesets[i].firstId <= data.tilesets[j].firstId
        /\ data.tilesets[j].firstId < data.tilesets[i].firstId + data.tilesets[i].tileCount

\* C16: after parsing the level's tilesets are in ascending order of first
\* id, and a level in which two of them have overlapping ranges is rejected
\* by validate_level: no header is generated for it.
C16_OverlapRejected ==
    Validated =>
        /\ \A i \in 1..(Len(data.tilesets) - 1) :
              data.tilesets[i].firstId <= data.tilesets[i + 1].firstId
        /\ RangesOverlap =>
              /\ pc = "done"
              /\ raised = "ValueError: validation errors"
              /\ unique_tiles = <<>>
              /\ output_file = "absent"

\* The position in the document of the k-th layer element that has data.
DataLayerIndex(k) ==
    CHOOSE j \in 1..Len(doc.layers) :
        /\ doc.layers[j].encoding # "none"
        /\ Cardinality({i \in 1..j : doc.layers[i].encoding # "none"}) = k

\* The value of the last property of the layer with the given name, or the
\* default when the layer has none.
Explicit(layer, name, default) ==
    LET named == {i \in 1..Len(layer.props) : layer.props[i].name = name}
    IN IF named = {} THEN default
       ELSE layer.props[CHOOSE i \in named : \A j \in named : j <= i].value

\* C17: the k-th layer parse_tmx_file parses (position k - 1) has bgLayer 2
\* and priority 1 by default, except that position 1 has bgLayer 1 and
\* priority 0; a bgLayer or priority property of the layer replaces the
\* corresponding default and leaves the other field at its default.
C17_LayerDefaults ==
    Parsed =>
        /\ Len(data.layers) =
              Cardinality({i \in 1..Len(doc.layers) : doc.layers[i].encoding # "none"})
        /\ \A k \in 1..Len(data.layers) :
              LET layer == doc.layers[DataLayerIndex(k)]
                  position == k - 1
              IN /\ data.layers[k].bgLayer =
                       Explicit(layer, "bgLayer",
                                CASE position = 0 -> 2 [] position = 1 -> 1 [] OTHER -> 2)
                 /\ data.layers[k].priority =
                       Explicit(layer, "priority",
                                CASE position = 0 -> 1 [] position = 1 -> 0 [] OTHER -> 1)

C17_Witness ==
    /\ Parsed
    /\ Len(doc.layers) = MaxLayers
    /\ Len(data.layers) = MaxLayers
    /\ doc.layers[1].props = <<>>
    /\ doc.layers[2].props = <<Property("bgLayer", 0)>>
    /\ doc.layers[3].props = <<>>
    /\ data.layers[1].bgLayer = 2 /\ data.layers[1].priority = 1
    /\ data.layers[2].bgLayer = 0 /\ data.layers[2].priority = 0
    /\ data.layers[3].bgLayer = 2 /\ data.layers[3].priority = 1

\* The written document has been parsed back.
ParsedBack == pc = "validate" /\ json_level # NoJson

NonEmptyRows(tiles) == SelectSeq(tiles, LAMBDA row : row # <<>>)

\* Every game tile ID from 0 to 1440 comes back from the GID it is written
\* as.
TableInvertsGameToTmx ==
    \A t \in 0..LAST_GAME_ID :
        /\ game_to_tmx(t) \in DOMAIN gid_to_game_id
        /\ gid_to_game_id[game_to_tmx(t)] = t

InRange(tiles) ==
    \A r \in 1..Len(tiles) : \A c \in 1..Len(tiles[r]) : tiles[r][c] \in 0..LAST_GAME_ID

\* C18, as claimed: for a JSON level over the game tile IDs 0..1440, the
\* document json_to_tmx writes is parsed back by parse_tmx_file to the same
\* tile IDs, and every row written comes back as a row of the same length.
C18_RoundTrip ==
    ParsedBack =>
        /\ TableInvertsGameToTmx
        /\ Len(data.layers) = 1
        /\ Len(data.layers[1].tiles) = Len(json_level.tiles)
        /\ \A r \in 1..Len(json_level.tiles) :
              /\ Len(data.layers[1].tiles[r]) = Len(json_level.tiles[r])
              /\ InRange(json_level.tiles) => data.layers[1].tiles[r] = json_level.tiles[r]

\* C18, amended: the tile IDs come back, and every row of at least one cell
\* comes back as a row of the same length, in the same order; a row without
\* cells does not come back as a row.
C18_RoundTripNonEmptyRows ==
    ParsedBack =>
        /\ TableInvertsGameToTmx
        /\ Len(data.layers) = 1
        /\ Len(data.layers[1].tiles) = Len(NonEmptyRows(json_level.tiles))
        /\ \A r \in 1..Len(NonEmptyRows(json_level.tiles)) :
              /\ Len(data.layers[1].tiles[r]) = Len(NonEmptyRows(json_level.tiles)[r])
              /\ InRange(json_level.tiles) =>
                    data.layers[1].tiles[r] = NonEmptyRows(json_level.tiles)[r]

C18_Witness ==
    /\ ParsedBack
    /\ json_level.tiles = <<<<PLANTS_FIRST, DECALS_FIRST>>, <<>>, <<PLANTS_FIRST, DECALS_FIRST>>>>
    /\ doc.layers[1].rows = << <<TMX_PLANTS_FIRST, TMX_DECALS_FIRST, Blank>>, <<Blank>>,
                               <<TMX_PLANTS_FIRST, TMX_DECALS_FIRST>> >>
    /\ data.layers[1].tiles = <<<<PLANTS_FIRST, DECALS_FIRST>>, <<PLANTS_FIRST, DECALS_FIRST>>>>

====
